---- MODULE Spec2Model ----
(***************************************************************************)
(* Reliable transport over a stream: the sender of src/client.py           *)
(* (run_client) and the receiver of src/server.py (handle_client), joined  *)
(* by the two directions of one connection.                                *)
(*                                                                         *)
(* Text is a sequence of Unicode code points; a payload is a slice of the  *)
(* source text.  A JSON object is a record; a missing key is a missing     *)
(* field.  The key "maximum message size" is written maximum_message_size  *)
(* and "dynamic message size" dynamic_message_size.  json.dumps followed   *)
(* by json.loads gives back the same object, so a line of the connection   *)
(* is the object itself.  A field holding a JSON integer is that integer;  *)
(* JSON true and false are Python's True and False, which are instances    *)
(* of int with the values 1 and 0: the field holds that int and the record *)
(* has the extra field seq_bool.  A seq that is a JSON string has no int   *)
(* value: the record has the field seq_string instead of seq.              *)
(* A line that is not JSON is the record NotJson; each side's recv_msg     *)
(* turns it into what that side's code sees (an ERR message at the server, *)
(* None at the client).                                                    *)
(*                                                                         *)
(* Time is the time elapsed since the retransmission timer was set,        *)
(* counted in ticks; it passes while the client waits in the poll and      *)
(* between the poll and the check of the timer.  The timer has expired     *)
(* when more than TimeoutTicks ticks have passed.  The blocking reads of   *)
(* the handshake, the negotiation and the termination wait until a line    *)
(* is there.                                                               *)
(***************************************************************************)
EXTENDS Integers, Sequences, FiniteSets, TLC

(***************************************************************************)
(* Bounds of the model.                                                    *)
(***************************************************************************)
MaxLen == 3          \* longest source text of the small configurations
MaxWindow == 2       \* largest window of the small configurations
TimeoutTicks == 0    \* config["timeout"], in clock ticks
MaxInFlight == 4     \* messages in the connection when a timer may still expire
MaxPeerLines == 2    \* lines in the connection when a peer may still write one

(***************************************************************************)
(* Program constants.                                                      *)
(***************************************************************************)
DEFAULT_MMS == 400   \* client.py:122  neg_response.get(..., 400)
MIN_MSS == 20        \* server.py:184  max(20, ...)
SHRINK_STEP == 20    \* server.py:184  mss - 20
GROW_STEP == 10      \* server.py:186  mss + 10
BACKLOG == 2         \* server.py:183  len(rcv_buffer) > 2

None == <<>>

Min(a, b) == IF a < b THEN a ELSE b
Max(a, b) == IF a > b THEN a ELSE b

(***************************************************************************)
(* Texts.  Text(n, wide) has n characters; those at the positions in wide  *)
(* are U+00E9 (two bytes in UTF-8), the others are the letters a, b, c ... *)
(***************************************************************************)
Text(n, wide) == [i \in 1..n |-> IF i \in wide THEN 233 ELSE 97 + ((i - 1) % 26)]

\* len(c.encode()) of one character
CharBytes(c) == IF c < 128 THEN 1 ELSE IF c < 2048 THEN 2 ELSE IF c < 65536 THEN 3 ELSE 4

\* len(payload.encode())
RECURSIVE Utf8Len(_)
Utf8Len(s) == IF s = <<>> THEN 0 ELSE CharBytes(Head(s)) + Utf8Len(Tail(s))

\* "".join(parts)
RECURSIVE Join(_)
Join(parts) == IF parts = <<>> THEN <<>> ELSE Head(parts) \o Join(Tail(parts))

(***************************************************************************)
(* Configurations: the client's message and window, the server's maximum   *)
(* message size and dynamic flag.                                          *)
(***************************************************************************)
Config(text, w, m, d) ==
    [file_data |-> text, window_size |-> w, cfg_mss |-> m, dyn |-> d]

SmallConfigs ==
    { Config(Text(n, wide), w, m, d) :
        n \in 0..MaxLen, wide \in {{}, {1}}, w \in 1..MaxWindow,
        m \in {1, 2}, d \in BOOLEAN }

ScenarioConfigs ==
    { Config(Text(7, {1}), 4, 2, TRUE),
      Config(Text(121, {}), 4, 40, TRUE),
      Config(Text(121, {1}), 4, 40, TRUE),
      Config(Text(91, {}), 4, 30, TRUE),
      Config(Text(41, {}), 4, 40, FALSE),
      Config(Text(10, {}), 5, 2, TRUE) }

Configs == SmallConfigs \cup ScenarioConfigs

VARIABLES
    file_data,            \* client: the text read from the message file
    window_size,          \* client: config["window_size"]
    cfg_mss,              \* server: cfg["maximum message size"]
    cpc,                  \* client: position in run_client
    mms,                  \* client: current maximum message size (0 until negotiated)
    is_dynamic,           \* client: negotiated dynamic flag (FALSE until negotiated)
    file_cursor,          \* client: read cursor into file_data
    sent_packets_buffer,  \* client: seq -> payload
    base,                 \* client: oldest unacknowledged seq
    next_seq_num,         \* client: next seq to assign
    timer_start,          \* client: None, or <<time elapsed since the timer was set>>
    spc,                  \* server: position in handle_client
    rcv_base,             \* server: next expected seq
    rcv_buffer,           \* server: seq -> payload, out of order
    app_data,             \* server: list of delivered payloads
    mss,                  \* server: current maximum segment size
    dyn_mss,              \* server: cfg["dynamic message size"]
    printed,              \* server: None, or <<the final message printed on FIN>>
    req,                  \* server: None, or the message read at the negotiation
    c2s,                  \* lines written by the client, not yet read by the server
    s2c,                  \* lines written by the server, not yet read by the client
    final_ack,            \* client: None, or <<the message read after FIN>>
    timeout_occurred,     \* client: a read of rfile has timed out (every later read fails)
    seg,                  \* server: None, or the last message read in the receive loop
    arrived,              \* history: seqs of the DATA segments the server has read
    last_ack              \* history: None, or <<ack of the last message of send_ack()>>

cvars == <<file_data, window_size, cpc, mms, is_dynamic, file_cursor,
           sent_packets_buffer, base, next_seq_num, timer_start, final_ack,
           timeout_occurred>>
svars == <<cfg_mss, spc, rcv_base, rcv_buffer, app_data, mss, dyn_mss, printed, req,
           seg, arrived, last_ack>>
vars == <<cvars, svars, c2s, s2c>>

(***************************************************************************)
(* Messages.                                                               *)
(***************************************************************************)
Msg(t) == [type |-> t]
DataMsg(seq, payload) == [type |-> "DATA", seq |-> seq, payload |-> payload]
SizeReply(m, d) ==
    [type |-> "MAX_MSG_SIZE", maximum_message_size |-> m, dynamic_message_size |-> d]

\* obj.get(key, default)
Get(obj, key, default) == IF key \in DOMAIN obj THEN obj[key] ELSE default

\* a line of the connection that is not JSON
NotJson == [line |-> "not json"]

\* the server's recv_msg gives an ERR message for a line that is not JSON
BadJson == [type |-> "ERR", reason |-> "bad_json"]

\* server.py recv_msg
recv_msg_server(line) == IF "line" \in DOMAIN line THEN BadJson ELSE line

\* client.py recv_msg: None for a line that is not JSON
recv_msg_client(line) == IF "line" \in DOMAIN line THEN None ELSE line

\* the state of a session before its first step
Start(cfg) ==
    /\ file_data = cfg.file_data
    /\ window_size = cfg.window_size
    /\ cfg_mss = cfg.cfg_mss
    /\ dyn_mss = cfg.dyn
    /\ mss = cfg.cfg_mss
    /\ cpc = "start"
    /\ mms = 0
    /\ is_dynamic = FALSE
    /\ file_cursor = 0
    /\ sent_packets_buffer = <<>>
    /\ base = 0
    /\ next_seq_num = 0
    /\ timer_start = None
    /\ final_ack = None
    /\ timeout_occurred = FALSE
    /\ spc = "wait_sin"
    /\ rcv_base = 0
    /\ rcv_buffer = <<>>
    /\ app_data = <<>>
    /\ printed = None
    /\ req = None
    /\ seg = None
    /\ c2s = <<>>
    /\ s2c = <<>>
    /\ arrived = {}
    /\ last_ack = None

Init == \E cfg \in Configs : Start(cfg)

(***************************************************************************)
(* The client, run_client.                                                 *)
(***************************************************************************)

Cut_OneMore(text, cursor, size) == SubSeq(text, cursor + 1, Min(Len(text), cursor + size + 1))

\* file_data[file_cursor : file_cursor + mms]
Cut(text, cursor, size) == SubSeq(text, cursor + 1, Min(Len(text), cursor + size))

Transferring_And(cursor, b, n) == cursor < Len(file_data) /\ b < n

\* the condition of the transfer loop
Transferring(cursor, b, n) == cursor < Len(file_data) \/ b < n

LoopPc_CursorOnly(cursor, b, n) == IF cursor < Len(file_data) THEN "fill" ELSE "fin"

\* where the client goes at the top of the transfer loop
LoopPc(cursor, b, n) == IF Transferring(cursor, b, n) THEN "fill" ELSE "fin"

\* Phase 1: send SIN
ClientHello ==
    /\ cpc = "start"
    /\ c2s' = Append(c2s, Msg("SIN"))
    /\ cpc' = "handshake"
    /\ UNCHANGED <<file_data, window_size, mms, is_dynamic, file_cursor,
                   sent_packets_buffer, base, next_seq_num, timer_start, final_ack,
                   timeout_occurred>>
    /\ UNCHANGED <<svars, s2c>>

ClientHandshake_NoCheck ==
    /\ cpc = "handshake"
    /\ s2c # <<>>
    /\ s2c' = Tail(s2c)
    /\ cpc' = "negotiate"
    /\ c2s' = c2s \o <<Msg("ACK"), Msg("GET_MAX_MSG_SIZE")>>
    /\ UNCHANGED <<file_data, window_size, mms, is_dynamic, file_cursor,
                   sent_packets_buffer, base, next_seq_num, timer_start, final_ack,
                   timeout_occurred>>
    /\ UNCHANGED svars

\* Phase 1: read the reply to SIN; send ACK, then the size request of phase 2
ClientHandshake ==
    /\ cpc = "handshake"
    /\ s2c # <<>>
    /\ s2c' = Tail(s2c)
    /\ IF Get(recv_msg_client(Head(s2c)), "type", None) # "SIN/ACK"
       THEN /\ cpc' = "done"
            /\ c2s' = c2s
       ELSE /\ cpc' = "negotiate"
            /\ c2s' = c2s \o <<Msg("ACK"), Msg("GET_MAX_MSG_SIZE")>>
    /\ UNCHANGED <<file_data, window_size, mms, is_dynamic, file_cursor,
                   sent_packets_buffer, base, next_seq_num, timer_start, final_ack,
                   timeout_occurred>>
    /\ UNCHANGED svars

\* Phase 2: read the negotiation reply; return if there is none, else set the
\* parameters and enter phase 3
ClientNegotiate ==
    /\ cpc = "negotiate"
    /\ s2c # <<>>
    /\ s2c' = Tail(s2c)
    /\ LET neg_response == recv_msg_client(Head(s2c))
       IN  IF neg_response = None
           THEN /\ cpc' = "done"
                /\ UNCHANGED <<mms, is_dynamic>>
           ELSE /\ mms' = Get(neg_response, "maximum_message_size", DEFAULT_MMS)
                /\ is_dynamic' = Get(neg_response, "dynamic_message_size", FALSE)
                /\ cpc' = LoopPc(file_cursor, base, next_seq_num)
    /\ UNCHANGED <<file_data, window_size, file_cursor, sent_packets_buffer,
                   base, next_seq_num, timer_start, final_ack,
                   timeout_occurred>>
    /\ UNCHANGED <<svars, c2s>>

WindowOpen_Inclusive(n, b) == n <= b + window_size

\* next_seq_num < base + window_size
WindowOpen(n, b) == n < b + window_size

\* the inner loop: send new segments while the window allows
RECURSIVE FillWindow(_)
FillWindow(st) ==
    IF WindowOpen(st.next_seq_num, base) /\ st.file_cursor < Len(file_data)
    THEN LET payload == Cut(file_data, st.file_cursor, mms)
         IN  FillWindow(
                [sent_packets_buffer |->
                    (st.next_seq_num :> payload) @@ st.sent_packets_buffer,
                 sent |-> Append(st.sent, DataMsg(st.next_seq_num, payload)),
                 timer_start |-> IF base = st.next_seq_num THEN <<0>> ELSE st.timer_start,
                 file_cursor |-> st.file_cursor + Len(payload),
                 next_seq_num |-> st.next_seq_num + 1])
    ELSE st

ClientFill ==
    /\ cpc = "fill"
    /\ LET st == FillWindow([sent_packets_buffer |-> sent_packets_buffer,
                             sent |-> <<>>,
                             timer_start |-> timer_start,
                             file_cursor |-> file_cursor,
                             next_seq_num |-> next_seq_num])
       IN  /\ sent_packets_buffer' = st.sent_packets_buffer
           /\ c2s' = c2s \o st.sent
           /\ timer_start' = st.timer_start
           /\ file_cursor' = st.file_cursor
           /\ next_seq_num' = st.next_seq_num
    /\ cpc' = "poll"
    /\ UNCHANGED <<file_data, window_size, mms, is_dynamic, base, final_ack,
                   timeout_occurred>>
    /\ UNCHANGED <<svars, s2c>>

Advances_Strict(ack_msg, b) ==
    /\ Get(ack_msg, "type", None) = "ACK"
    /\ "ack" \in DOMAIN ack_msg
    /\ ack_msg.ack > b

\* does the message read in the poll advance the window
Advances(ack_msg, b) ==
    /\ Get(ack_msg, "type", None) = "ACK"
    /\ "ack" \in DOMAIN ack_msg
    /\ ack_msg.ack >= b

NewBase_Skip(ack_num) == ack_num + 2

\* base after a cumulative acknowledgment that advances the window
NewBase(ack_num) == ack_num + 1

TimerAfterAck_Keep(b, n) == <<0>>

\* the timer after base has moved to b
TimerAfterAck(b, n) == IF b < n THEN <<0>> ELSE None

\* the poll read one line
ClientPollAck ==
    /\ cpc = "poll"
    /\ ~timeout_occurred
    /\ s2c # <<>>
    /\ s2c' = Tail(s2c)
    /\ LET ack_msg == recv_msg_client(Head(s2c))
       IN  IF Advances(ack_msg, base)
           THEN /\ base' = NewBase(ack_msg.ack)
                /\ timer_start' = TimerAfterAck(base', next_seq_num)
                /\ mms' = IF is_dynamic /\ "maximum_message_size" \in DOMAIN ack_msg
                          THEN ack_msg.maximum_message_size
                          ELSE mms
           ELSE UNCHANGED <<base, timer_start, mms>>
    /\ cpc' = "timeout"
    /\ UNCHANGED <<file_data, window_size, is_dynamic, file_cursor,
                   sent_packets_buffer, next_seq_num, final_ack,
                   timeout_occurred>>
    /\ UNCHANGED <<svars, c2s>>

\* the poll raised: no line came within 0.1 s (socket.timeout), or a read of
\* rfile has timed out before ("cannot read from timed out object": once a read
\* of the file object of socket.makefile has timed out, every later read fails)
ClientPollTimeout ==
    /\ cpc = "poll"
    /\ timeout_occurred' = TRUE
    /\ cpc' = "timeout"
    /\ UNCHANGED <<file_data, window_size, mms, is_dynamic, file_cursor,
                   sent_packets_buffer, base, next_seq_num, timer_start, final_ack>>
    /\ UNCHANGED <<svars, c2s, s2c>>

\* timer_start and (time.time() - timer_start > config["timeout"])
Expired(t) == t # None /\ t[1] > TimeoutTicks

Retransmission_OldestOnly(b, n, buffer) ==
    IF b < n /\ b \in DOMAIN buffer THEN <<DataMsg(b, buffer[b])>> ELSE <<>>

\* the DATA messages of a timeout: every seq of range(base, next_seq_num) in the buffer
Retransmission(b, n, buffer) ==
    LET seqs == SelectSeq([i \in 1..(n - b) |-> b + i - 1],
                          LAMBDA seq : seq \in DOMAIN buffer)
    IN  [i \in 1..Len(seqs) |-> DataMsg(seqs[i], buffer[seqs[i]])]

ClientTimeoutCheck ==
    /\ cpc = "timeout"
    /\ IF Expired(timer_start)
       THEN /\ timer_start' = <<0>>
            /\ c2s' = c2s \o Retransmission(base, next_seq_num, sent_packets_buffer)
       ELSE UNCHANGED <<timer_start, c2s>>
    /\ cpc' = LoopPc(file_cursor, base, next_seq_num)
    /\ UNCHANGED <<file_data, window_size, mms, is_dynamic, file_cursor,
                   sent_packets_buffer, base, next_seq_num, final_ack,
                   timeout_occurred>>
    /\ UNCHANGED <<svars, s2c>>

\* Phase 4: send FIN
ClientFin ==
    /\ cpc = "fin"
    /\ c2s' = Append(c2s, Msg("FIN"))
    /\ cpc' = "wait_fin_ack"
    /\ UNCHANGED <<file_data, window_size, mms, is_dynamic, file_cursor,
                   sent_packets_buffer, base, next_seq_num, timer_start, final_ack,
                   timeout_occurred>>
    /\ UNCHANGED <<svars, s2c>>

\* Phase 4: read one line after FIN
ClientFinal ==
    /\ cpc = "wait_fin_ack"
    /\ ~timeout_occurred
    /\ s2c # <<>>
    /\ s2c' = Tail(s2c)
    /\ final_ack' = <<recv_msg_client(Head(s2c))>>
    /\ cpc' = "done"
    /\ UNCHANGED <<file_data, window_size, mms, is_dynamic, file_cursor,
                   sent_packets_buffer, base, next_seq_num, timer_start,
                   timeout_occurred>>
    /\ UNCHANGED <<svars, c2s>>

\* time passes while the retransmission timer is set: while the client waits in
\* the poll, and between the poll and the comparison of the timer with the
\* timeout (the clock is read nowhere else; time that passes in the rest of the
\* loop shows at the next comparison like time that passes in the poll).  The
\* timer may pass the timeout only while the connection holds at most cap
\* messages
TickWithin(cap) ==
    /\ cpc \in {"poll", "timeout"}
    /\ timer_start # None
    /\ timer_start[1] <= TimeoutTicks
    /\ timer_start[1] = TimeoutTicks =>
           Len(c2s) + Len(s2c) + (next_seq_num - base) <= cap
    /\ timer_start' = <<timer_start[1] + 1>>
    /\ UNCHANGED <<file_data, window_size, cpc, mms, is_dynamic, file_cursor,
                   sent_packets_buffer, base, next_seq_num, final_ack,
                   timeout_occurred>>
    /\ UNCHANGED <<svars, c2s, s2c>>

Tick == TickWithin(MaxInFlight)

\* the timeout passes while acknowledgments are still on their way
TickLate == TickWithin(MaxInFlight + MaxWindow)

(***************************************************************************)
(* The server, handle_client.                                              *)
(***************************************************************************)

AckNum_Wrapped(rb) == (rb - 1) % 2

\* the message of send_ack()
AckNum(rb) == rb - 1

AckMsg(rb, m) ==
    IF dyn_mss
    THEN [type |-> "ACK", ack |-> AckNum(rb), maximum_message_size |-> m]
    ELSE [type |-> "ACK", ack |-> AckNum(rb)]

\* Phase 1: read SIN, answer SIN/ACK
ServerSin ==
    /\ spc = "wait_sin"
    /\ c2s # <<>>
    /\ c2s' = Tail(c2s)
    /\ IF Get(recv_msg_server(Head(c2s)), "type", None) # "SIN"
       THEN /\ spc' = "done"
            /\ s2c' = s2c
       ELSE /\ spc' = "wait_ack"
            /\ s2c' = Append(s2c, Msg("SIN/ACK"))
    /\ UNCHANGED <<cfg_mss, rcv_base, rcv_buffer, app_data, mss, dyn_mss, printed, seg,
                   arrived, last_ack, req>>
    /\ UNCHANGED cvars

\* Phase 1: read the ACK that completes the handshake
ServerAck ==
    /\ spc = "wait_ack"
    /\ c2s # <<>>
    /\ c2s' = Tail(c2s)
    /\ spc' = IF Get(recv_msg_server(Head(c2s)), "type", None) # "ACK"
              THEN "done"
              ELSE "wait_req"
    /\ UNCHANGED <<cfg_mss, rcv_base, rcv_buffer, app_data, mss, dyn_mss, printed, seg,
                   arrived, last_ack, req>>
    /\ UNCHANGED <<cvars, s2c>>

\* Phase 2: read one message; answer it if it is the size request
ServerNegotiate ==
    /\ spc = "wait_req"
    /\ c2s # <<>>
    /\ c2s' = Tail(c2s)
    /\ s2c' = IF Get(recv_msg_server(Head(c2s)), "type", None) = "GET_MAX_MSG_SIZE"
              THEN Append(s2c, SizeReply(mss, dyn_mss))
              ELSE s2c
    /\ spc' = "loop"
    /\ req' = recv_msg_server(Head(c2s))
    /\ UNCHANGED <<cfg_mss, rcv_base, rcv_buffer, app_data, mss, dyn_mss, printed, seg,
                   arrived, last_ack>>
    /\ UNCHANGED cvars

\* seq is an int
ValidSeq(segment) == "seq" \in DOMAIN segment /\ segment.seq \in Int

RECURSIVE Drain_Prepend(_, _, _)
Drain_Prepend(buffer, rb, data) ==
    IF rb \in DOMAIN buffer
    THEN Drain_Prepend([k \in DOMAIN buffer \ {rb} |-> buffer[k]], rb + 1,
                       <<buffer[rb]>> \o data)
    ELSE [rcv_buffer |-> buffer, rcv_base |-> rb, app_data |-> data]

\* while rcv_base in rcv_buffer: app_data.append(rcv_buffer.pop(rcv_base)); rcv_base += 1
RECURSIVE Drain(_, _, _)
Drain(buffer, rb, data) ==
    IF rb \in DOMAIN buffer
    THEN Drain([k \in DOMAIN buffer \ {rb} |-> buffer[k]], rb + 1, Append(data, buffer[rb]))
    ELSE [rcv_buffer |-> buffer, rcv_base |-> rb, app_data |-> data]

\* rcv_buffer[seq] = payload, then the drain
Store(buffer, rb, data, seq, payload) == Drain((seq :> payload) @@ buffer, rb, data)

AdaptMss_NoFloor(m, buffer) ==
    IF dyn_mss
    THEN IF Cardinality(DOMAIN buffer) > BACKLOG
         THEN m - SHRINK_STEP
         ELSE IF DOMAIN buffer = {}
              THEN Min(cfg_mss, m + GROW_STEP)
              ELSE m
    ELSE m

\* the dynamic adjustment of mss after a segment was stored
AdaptMss(m, buffer) ==
    IF dyn_mss
    THEN IF Cardinality(DOMAIN buffer) > BACKLOG
         THEN Max(MIN_MSS, m - SHRINK_STEP)
         ELSE IF DOMAIN buffer = {}
              THEN Min(cfg_mss, m + GROW_STEP)
              ELSE m
    ELSE m

Accepts_Old(segment, rb, m) ==
    /\ ValidSeq(segment)
    /\ ~(Utf8Len(Get(segment, "payload", <<>>)) > m)

\* is the DATA segment stored (neither invalid, old nor too long)
Accepts(segment, rb, m) ==
    /\ ValidSeq(segment)
    /\ ~(segment.seq < rb)
    /\ ~(Utf8Len(Get(segment, "payload", <<>>)) > m)

\* the lines left when line i has been read
Remove(lines, i) == SubSeq(lines, 1, i - 1) \o SubSeq(lines, i + 1, Len(lines))

\* Phase 3: one iteration of the receive loop, on line i of the connection;
\* the line leaves the connection unless keep
ServerRead(i, keep) ==
    /\ spc = "loop"
    /\ i \in 1..Len(c2s)
    /\ c2s' = IF keep THEN c2s ELSE Remove(c2s, i)
    /\ seg' = recv_msg_server(c2s[i])
    /\ LET t == Get(seg', "type", None)
       IN  IF t = "FIN"
           THEN /\ printed' = <<Join(app_data)>>
                /\ s2c' = Append(s2c, Msg("FIN_ACK"))
                /\ spc' = "done"
                /\ UNCHANGED <<rcv_base, rcv_buffer, app_data, mss, arrived, last_ack>>
           ELSE IF t # "DATA"
           THEN UNCHANGED <<printed, s2c, spc, rcv_base, rcv_buffer, app_data, mss, arrived,
                            last_ack>>
           ELSE /\ IF Accepts(seg', rcv_base, mss)
                   THEN LET d == Store(rcv_buffer, rcv_base, app_data,
                                       seg'.seq, Get(seg', "payload", <<>>))
                        IN  /\ rcv_buffer' = d.rcv_buffer
                            /\ rcv_base' = d.rcv_base
                            /\ app_data' = d.app_data
                            /\ mss' = AdaptMss(mss, d.rcv_buffer)
                   ELSE UNCHANGED <<rcv_base, rcv_buffer, app_data, mss>>
                /\ s2c' = Append(s2c, AckMsg(rcv_base', mss'))
                /\ last_ack' = <<AckMsg(rcv_base', mss').ack>>
                /\ arrived' = IF ValidSeq(seg') THEN arrived \cup {seg'.seq} ELSE arrived
                /\ UNCHANGED <<printed, spc>>
    /\ UNCHANGED <<cfg_mss, dyn_mss, req>>
    /\ UNCHANGED cvars

\* the stream delivers the lines in order, each once
ServerLoop == ServerRead(1, FALSE)

(***************************************************************************)
(* A channel that reorders and duplicates DATA segments: the server reads  *)
(* a DATA segment that has overtaken the DATA segments sent before it, or  *)
(* reads a copy of a DATA segment while the segment stays in the channel.  *)
(***************************************************************************)
IsData(m) == Get(m, "type", None) = "DATA"

NetDeliver ==
    \E i \in 1..Len(c2s), keep \in BOOLEAN :
        /\ i > 1 \/ keep
        /\ \A j \in 1..i : IsData(c2s[j])
        /\ keep => Len(c2s) + Len(s2c) < MaxInFlight
        /\ ServerRead(i, keep)

(***************************************************************************)
(* A peer that does not follow the protocol.  The other end of the server's *)
(* connection writes any lines before it runs run_client; the other end of *)
(* the client's connection writes any lines before it runs handle_client.  *)
(***************************************************************************)
\* DATA whose seq is JSON true or false
DataBool(b, payload) ==
    [type |-> "DATA", seq |-> IF b THEN 1 ELSE 0, seq_bool |-> TRUE, payload |-> payload]

\* DATA whose seq is the JSON string "1"
DataString(payload) == [type |-> "DATA", seq_string |-> <<49>>, payload |-> payload]

\* DATA without seq
DataNoSeq(payload) == [type |-> "DATA", payload |-> payload]

PeerLines ==
    { Msg("SIN"), Msg("ACK"), Msg("GET_MAX_MSG_SIZE"), Msg("FIN"), NotJson,
      DataMsg(0, Text(1, {})), DataMsg(1, Text(1, {})), DataMsg(-1, Text(1, {})),
      DataMsg(0, Text(3, {})), DataBool(TRUE, Text(1, {})), DataString(Text(1, {})),
      DataNoSeq(Text(1, {})) }

PeerReplies == { Msg("SIN/ACK"), Msg("FIN_ACK"), NotJson, [type |-> "ACK", ack |-> 0] }

PeerToServer ==
    /\ cpc = "start"
    /\ Len(c2s) + Len(s2c) < MaxPeerLines
    /\ \E m \in PeerLines : c2s' = Append(c2s, m)
    /\ UNCHANGED <<cvars, svars, s2c>>

PeerToClient ==
    /\ spc = "wait_sin"
    /\ Len(c2s) + Len(s2c) < MaxPeerLines
    /\ \E m \in PeerReplies : s2c' = Append(s2c, m)
    /\ UNCHANGED <<cvars, svars, c2s>>

Client ==
    \/ ClientHello
    \/ ClientHandshake
    \/ ClientNegotiate
    \/ ClientFill
    \/ ClientPollAck
    \/ ClientPollTimeout
    \/ ClientTimeoutCheck
    \/ ClientFin
    \/ ClientFinal
    \/ Tick

Server ==
    \/ ServerSin
    \/ ServerAck
    \/ ServerNegotiate
    \/ ServerLoop

Next == Client \/ Server

Spec == Init /\ [][Next]_vars

\* prompt peers: a line that was written is read within the poll, so the poll
\* times out only when no line is on its way (or the reader is already dead)
Quiet == timeout_occurred \/ (c2s = <<>> /\ s2c = <<>>)

ClientPollQuiet == Quiet /\ ClientPollTimeout

ClientPrompt ==
    \/ ClientHello
    \/ ClientHandshake
    \/ ClientNegotiate
    \/ ClientFill
    \/ ClientPollAck
    \/ ClientPollQuiet
    \/ ClientTimeoutCheck
    \/ ClientFin
    \/ ClientFinal

NextPrompt == ClientPrompt \/ Tick \/ Server

\* both peers keep running: the server reads a line that is there, the client
\* goes round its loop, reads an acknowledgment that is there, and time passes
\* in a poll again and again
SpecFair ==
    /\ Init
    /\ [][NextPrompt]_vars
    /\ WF_vars(Server)
    /\ WF_vars(ClientPrompt)
    /\ WF_vars(ClientPollAck)
    /\ SF_vars(Tick)

\* the ordered stream with latency: lines arrive in order, but an
\* acknowledgment may arrive after the timeout has passed
LateConfigs == { Config(Text(4, wide), 4, 1, d) : wide \in {{}, {1}}, d \in BOOLEAN }

InitLate == \E cfg \in LateConfigs : Start(cfg)

NextLate == Next \/ TickLate

SpecLate == InitLate /\ [][NextLate]_vars

NextNet == Next \/ NetDeliver

SpecNet == Init /\ [][NextNet]_vars

\* sessions in which the server changes its maximum message size and the client
\* cuts a segment afterwards, over the channel that reorders and duplicates
ResizeConfigs ==
    { Config(Text(13, {}), 5, 2, TRUE),
      Config(Text(3, {1}), 2, 1, TRUE),
      Config(Text(3, {}), 2, 2, FALSE) }

InitResize == \E cfg \in ResizeConfigs : Start(cfg)

SpecResize == InitResize /\ [][NextNet]_vars

\* the sessions with a peer that writes any line
PeerConfigs == { Config(Text(n, {}), 1, 2, d) : n \in 0..2, d \in BOOLEAN }

InitPeer == \E cfg \in PeerConfigs : Start(cfg)

NextPeer == Next \/ PeerToServer \/ PeerToClient

SpecPeer == InitPeer /\ [][NextPeer]_vars

(***************************************************************************)
(* Properties.                                                             *)
(***************************************************************************)

\* the payloads the sender cut for segments 0..k, in order
Segments(k) == [i \in 1..(k + 1) |-> sent_packets_buffer[i - 1]]

\* C1: when the receiver has processed FIN, the final message it printed is
\* the sender's whole source text, character for character.
C1_FinishedOutputIsSource == printed # None => printed[1] = file_data

\* a session with dynamic sizing that delivered at least three segments and
\* ended with FIN
C1_Witness ==
    /\ printed # None
    /\ dyn_mss
    /\ Len(app_data) >= 3

\* C2: once each of segments 0..k has arrived at the receiver, rcv_base is at
\* least k+1 and app_data begins with the payloads of segments 0..k in order.
C2_ArrivedPrefixDelivered ==
    \A k \in 0..(next_seq_num - 1) :
        (\A j \in 0..k : j \in arrived) =>
            /\ rcv_base >= k + 1
            /\ SubSeq(app_data, 1, k + 1) = Segments(k)

\* C3: every key of rcv_buffer is at least rcv_base, and app_data is exactly
\* the payloads of segments 0..rcv_base-1 in increasing order, each once.
C3_ReceiverInvariant ==
    /\ \A k \in DOMAIN rcv_buffer : k >= rcv_base
    /\ rcv_base <= next_seq_num
    /\ app_data = IF rcv_base = 0 THEN <<>> ELSE Segments(rcv_base - 1)

\* segments delivered and, behind a gap, a segment buffered out of order
C3_Witness ==
    /\ rcv_base >= 1
    /\ DOMAIN rcv_buffer # {}
    /\ \E k \in DOMAIN rcv_buffer : k > rcv_base

\* C4: at every point of the sender's transfer loop,
\* 0 <= next_seq_num - base <= window_size.
C4_WindowBounds ==
    /\ 0 <= next_seq_num - base
    /\ next_seq_num - base <= window_size

\* the window is full again after it has slid
C4_Witness ==
    /\ cpc = "poll"
    /\ base >= 1
    /\ next_seq_num - base = window_size
    /\ window_size >= 2

\* C5: the keys of sent_packets_buffer are exactly the seqs of [base, next_seq_num).
C5_OutstandingKeys == DOMAIN sent_packets_buffer = base..(next_seq_num - 1)

\* a step of the receive loop that read a DATA segment (the segment is seg')
ReadsData ==
    /\ spc = "loop"
    /\ UNCHANGED cvars
    /\ ~UNCHANGED vars
    /\ IsData(seg')

\* the step sent exactly one message, an acknowledgment carrying a
SendsOneAck(a) ==
    /\ Len(s2c') = Len(s2c) + 1
    /\ SubSeq(s2c', 1, Len(s2c)) = s2c
    /\ s2c'[Len(s2c')].type = "ACK"
    /\ s2c'[Len(s2c')].ack = a

\* C6: the ack values of the acknowledgments the receiver sends never decrease.
C6_AcksNonDecreasing ==
    [][(/\ Len(s2c') > Len(s2c)
        /\ s2c'[Len(s2c')].type = "ACK"
        /\ "ack" \in DOMAIN s2c'[Len(s2c')]
        /\ last_ack # None)
       => s2c'[Len(s2c')].ack >= last_ack[1]]_vars

\* acknowledgments were sent, the last one for a segment behind a gap
C6_Witness ==
    /\ last_ack # None
    /\ last_ack[1] >= 0
    /\ IsData(seg)
    /\ seg.seq \in DOMAIN rcv_buffer

\* C7: a DATA segment with seq < rcv_base leaves app_data, rcv_base and
\* rcv_buffer unchanged, and one acknowledgment with ack = rcv_base - 1 is sent.
C7_OldSegmentIgnoredAndAcked ==
    [][(ReadsData /\ ValidSeq(seg') /\ seg'.seq < rcv_base)
       => /\ UNCHANGED <<app_data, rcv_base, rcv_buffer>>
          /\ SendsOneAck(rcv_base - 1)]_vars

\* the next line the server reads is a DATA segment it has already delivered
C7_Witness ==
    /\ spc = "loop"
    /\ c2s # <<>>
    /\ IsData(Head(c2s))
    /\ Head(c2s).seq < rcv_base

\* C8: when the timer has expired at the timeout check, the sender sends DATA
\* for every seq of [base, next_seq_num) once, in order and nothing else, each
\* with the payload buffered when it was first sent, and sets the timer anew;
\* a buffered payload never changes.
C8_TimeoutRetransmitsWindow ==
    /\ [][(cpc = "timeout" /\ cpc' # cpc /\ Expired(timer_start))
          => /\ c2s' = c2s \o [i \in 1..(next_seq_num - base) |->
                                 DataMsg(base + i - 1, sent_packets_buffer[base + i - 1])]
             /\ timer_start' = <<0>>
             /\ UNCHANGED <<base, next_seq_num>>]_vars
    /\ [][\A k \in DOMAIN sent_packets_buffer :
             /\ k \in DOMAIN sent_packets_buffer'
             /\ sent_packets_buffer'[k] = sent_packets_buffer[k]]_vars

\* the timer has expired with two or more segments outstanding, cut before the
\* client's maximum message size changed
C8_Witness ==
    /\ cpc = "timeout"
    /\ Expired(timer_start)
    /\ next_seq_num - base >= 2
    /\ mms # cfg_mss

\* C9: after the sender reads an acknowledgment with value a in the poll, base
\* is max(base, a + 1); with a < base neither base, next_seq_num, mms nor the
\* timer changes.
C9_CumulativeAck ==
    [][(/\ cpc = "poll"
        /\ s2c # <<>>
        /\ s2c' = Tail(s2c)
        /\ Get(Head(s2c), "type", None) = "ACK"
        /\ "ack" \in DOMAIN Head(s2c))
       => /\ base' = Max(base, Head(s2c).ack + 1)
          /\ Head(s2c).ack < base =>
                 UNCHANGED <<base, next_seq_num, mms, timer_start>>]_vars

\* the poll is about to read an acknowledgment that moves base by two or more
C9_Witness ==
    /\ cpc = "poll"
    /\ s2c # <<>>
    /\ Get(Head(s2c), "type", None) = "ACK"
    /\ Head(s2c).ack >= base + 1

\* C10 as stated: mss is never below 20 and never above the configured
\* maximum, for every positive configured maximum.
C10_MssInRange == MIN_MSS <= mss /\ mss <= cfg_mss

\* C10 amended: with the dynamic flag, a stored DATA segment makes mss
\* max(20, mss - 20) when rcv_buffer then holds more than 2 entries,
\* min(configured maximum, mss + 10) when it is empty, and leaves it otherwise;
\* when the configured maximum is at least 20, mss stays between 20 and the
\* configured maximum; without the dynamic flag mss never changes.
C10_AdaptiveMss ==
    /\ [](cfg_mss >= MIN_MSS => (MIN_MSS <= mss /\ mss <= cfg_mss))
    /\ [][(ReadsData /\ dyn_mss /\ Accepts(seg', rcv_base, mss))
          => mss' = IF Cardinality(DOMAIN rcv_buffer') > 2
                    THEN Max(20, mss - 20)
                    ELSE IF Cardinality(DOMAIN rcv_buffer') = 0
                         THEN Min(cfg_mss, mss + 10)
                         ELSE mss]_vars
    /\ [][~dyn_mss => mss' = mss]_vars

\* with a configured maximum of at least 40, mss has been shrunk by 20
C10_Witness ==
    /\ dyn_mss
    /\ cfg_mss >= 40
    /\ mss = cfg_mss - 20
    /\ Cardinality(DOMAIN rcv_buffer) > 2

\* the step wrote a line of type t at the end of the lines of the client
ClientWrites(t) ==
    /\ Len(c2s') > Len(c2s)
    /\ Get(c2s'[Len(c2s')], "type", None) = t

\* a step of the receive loop that read FIN
ReadsFin ==
    /\ spc = "loop"
    /\ UNCHANGED cvars
    /\ ~UNCHANGED vars
    /\ Get(seg', "type", None) = "FIN"

\* C11: the sender writes FIN only when every character of the source has
\* been cut into a segment and base = next_seq_num; the receiver answers a FIN
\* with exactly one FIN_ACK; once the FIN_ACK is sent neither peer writes
\* another message.
C11_FinClosesSession ==
    /\ [][ClientWrites("FIN")
          => (file_cursor = Len(file_data) /\ base = next_seq_num)]_vars
    /\ [][ReadsFin => s2c' = Append(s2c, Msg("FIN_ACK"))]_vars
    /\ [][printed # None => (Len(c2s') <= Len(c2s) /\ Len(s2c') <= Len(s2c))]_vars

\* a session of two or more segments closed: the FIN was answered and the
\* answer read, and the connection is empty
C11_Witness ==
    /\ final_ack = <<Msg("FIN_ACK")>>
    /\ printed # None
    /\ next_seq_num >= 2
    /\ c2s = <<>>
    /\ s2c = <<>>

\* a step of the server that wrote an acknowledgment
ServerAcks ==
    /\ UNCHANGED cvars
    /\ Len(s2c') > Len(s2c)
    /\ Get(s2c'[Len(s2c')], "type", None) = "ACK"

\* C12: every acknowledgment the receiver writes carries ack = rcv_base - 1,
\* with rcv_base taken after the segment was processed, and carries the
\* maximum message size if and only if the dynamic flag is set; a receiver
\* with rcv_base = 0 and nothing buffered that reads seq 1 keeps rcv_base = 0,
\* buffers seq 1 and acknowledges -1; when it then reads seq 0 both are
\* delivered, rcv_base = 2 and the acknowledgment carries 1.
C12_AckAfterProcessing ==
    /\ [][ServerAcks
          => LET a == s2c'[Len(s2c')]
             IN  /\ a.ack = rcv_base' - 1
                 /\ ("maximum_message_size" \in DOMAIN a) <=> dyn_mss]_vars
    /\ [][(ReadsData /\ rcv_base = 0 /\ DOMAIN rcv_buffer = {} /\ seg'.seq = 1)
          => /\ rcv_base' = 0
             /\ DOMAIN rcv_buffer' = {1}
             /\ SendsOneAck(-1)]_vars
    /\ [][(ReadsData /\ rcv_base = 0 /\ DOMAIN rcv_buffer = {1} /\ seg'.seq = 0)
          => /\ rcv_base' = 2
             /\ DOMAIN rcv_buffer' = {}
             /\ Len(app_data') = 2
             /\ SendsOneAck(1)]_vars

\* a step of the client
ClientStep == ~UNCHANGED cvars

\* a step of the client that wrote a line of one of the types
ClientWritesOneOf(types) ==
    /\ ClientStep
    /\ \E i \in (Len(c2s) + 1)..Len(c2s') : Get(c2s'[i], "type", None) \in types

\* a step of the server that read the first line of the connection
ServerReadsHead ==
    /\ UNCHANGED cvars
    /\ c2s # <<>>
    /\ c2s' = Tail(c2s)

\* C13: the sender writes GET_MAX_MSG_SIZE, DATA or FIN only after the reply
\* to its SIN was SIN/ACK; when the reply is anything else it stops and never
\* writes again.  The receiver writes nothing when the first line it reads is
\* not SIN, and nothing after its SIN/ACK when the next line is not ACK.
C13_HandshakeFatal ==
    /\ [][ClientWritesOneOf({"GET_MAX_MSG_SIZE", "DATA", "FIN"})
          => /\ cpc # "start"
             /\ cpc = "handshake" => Get(Head(s2c), "type", None) = "SIN/ACK"]_vars
    /\ [][(ClientStep /\ cpc = "handshake" /\ Get(Head(s2c), "type", None) # "SIN/ACK")
          => (cpc' = "done" /\ c2s' = c2s)]_vars
    /\ [][cpc = "done" => UNCHANGED cvars]_vars
    /\ [][(ServerReadsHead /\ spc = "wait_sin" /\ Get(Head(c2s), "type", None) # "SIN")
          => (spc' = "done" /\ s2c' = s2c)]_vars
    /\ [][(ServerReadsHead /\ spc = "wait_ack" /\ Get(Head(c2s), "type", None) # "ACK")
          => (spc' = "done" /\ s2c' = s2c)]_vars
    /\ [][spc = "done" => (UNCHANGED svars /\ Len(s2c') <= Len(s2c))]_vars

\* the reply to the client's SIN was not SIN/ACK: the client has stopped, having
\* written its SIN and nothing else
C13_Witness ==
    /\ cpc = "done"
    /\ next_seq_num = 0
    /\ final_ack = None
    /\ spc = "wait_sin"
    /\ c2s = <<Msg("SIN")>>

\* the DATA lines a step of the client wrote, in order
NewLines == [i \in 1..(Len(c2s') - Len(c2s)) |-> c2s'[Len(c2s) + i]]

\* C14: the sender assigns the sequence numbers 0, 1, 2, ... in increasing
\* order; each payload it cuts starts at the read cursor and is at most mms
\* long at the time of cutting; at every point the payloads of segments
\* 0..next_seq_num-1, concatenated, are the first file_cursor characters of
\* the source.
C14_DenseSeqsGapFreeSlices ==
    /\ [](/\ DOMAIN sent_packets_buffer = 0..(next_seq_num - 1)
          /\ Join(Segments(next_seq_num - 1)) = SubSeq(file_data, 1, file_cursor))
    /\ [][next_seq_num' >= next_seq_num /\ file_cursor' >= file_cursor]_vars
    /\ [][(ClientStep /\ cpc = "fill")
          => /\ Len(NewLines) = next_seq_num' - next_seq_num
             /\ \A i \in 1..Len(NewLines) :
                    LET start == file_cursor
                                 + Len(Join([j \in 1..(i - 1) |-> NewLines[j].payload]))
                    IN  /\ NewLines[i].type = "DATA"
                        /\ NewLines[i].seq = next_seq_num + i - 1
                        /\ Len(NewLines[i].payload) <= mms
                        /\ NewLines[i].payload =
                               SubSeq(file_data, start + 1, start + Len(NewLines[i].payload))
                        /\ sent_packets_buffer'[next_seq_num + i - 1] = NewLines[i].payload
             /\ file_cursor' = file_cursor + Len(Join([j \in 1..Len(NewLines) |->
                                                          NewLines[j].payload]))]_vars

\* the whole source is cut, and a segment was cut after the maximum message
\* size had changed: it is longer than the maximum the server was configured with
C14_Witness ==
    /\ file_cursor = Len(file_data)
    /\ next_seq_num >= 3
    /\ \E k \in DOMAIN sent_packets_buffer : Len(sent_packets_buffer[k]) > cfg_mss

\* the seq of the segment is missing or is not a non-negative integer
SeqNotNonNegativeInteger(segment) ==
    \/ "seq" \notin DOMAIN segment
    \/ "seq_bool" \in DOMAIN segment
    \/ segment.seq < 0

\* C15: when the receiver reads a DATA segment whose seq is missing or not a
\* non-negative integer, or whose payload is longer than mss, it writes one
\* acknowledgment with ack = rcv_base - 1 and nothing else, and rcv_base,
\* rcv_buffer and app_data do not change.
C15_RejectedSegmentAcked ==
    [][(/\ ServerReadsHead
        /\ spc = "loop"
        /\ IsData(Head(c2s))
        /\ \/ SeqNotNonNegativeInteger(Head(c2s))
           \/ Utf8Len(Get(Head(c2s), "payload", <<>>)) > mss)
       => /\ SendsOneAck(rcv_base - 1)
          /\ UNCHANGED <<rcv_base, rcv_buffer, app_data>>]_vars

\* C16: when the line the receiver reads at the negotiation is not
\* GET_MAX_MSG_SIZE, it writes no MAX_MSG_SIZE, and that line is the first one
\* the receive loop interprets.
C16_NegotiationLeavesMessage ==
    /\ [][(/\ ServerReadsHead
           /\ spc = "wait_req"
           /\ Get(Head(c2s), "type", None) # "GET_MAX_MSG_SIZE")
          => s2c' = s2c]_vars
    /\ [][(/\ spc = "loop"
           /\ seg = None
           /\ seg' # None
           /\ Get(req, "type", None) # "GET_MAX_MSG_SIZE")
          => seg' = req]_vars

\* C17: when both peers keep running, every line is delivered and the timer
\* keeps firing, the sender eventually has cut the whole source, has every
\* segment acknowledged (base = next_seq_num) and has written FIN.
C17_Progress ==
    <>(/\ file_cursor = Len(file_data)
       /\ base = next_seq_num
       /\ cpc \in {"wait_fin_ack", "done"})

\* C18: in every state of a session base <= rcv_base <= next_seq_num (the sender
\* counts no segment as acknowledged that the receiver has not delivered), and
\* no step decreases base.
C18_BaseRcvBaseNextSeq ==
    /\ [](base <= rcv_base /\ rcv_base <= next_seq_num)
    /\ [][base' >= base]_vars

C18_Witness ==
    /\ 0 < base
    /\ base < rcv_base
    /\ rcv_base < next_seq_num

\* C19: when the receiver has processed the FIN, the one message the sender
\* read after writing FIN is the FIN_ACK, not an acknowledgment left unread.
C19_FinalReadIsFinAck ==
    (final_ack # None /\ printed # None) => final_ack[1].type = "FIN_ACK"

\* C20: at the end of every iteration of the transfer loop the timer is set
\* exactly when a segment is outstanding (base < next_seq_num); it is set when
\* the first outstanding segment is sent, set anew when an acknowledgment moves
\* base and leaves segments outstanding, and cleared when an acknowledgment
\* empties the window.
C20_TimerArmedIffOutstanding ==
    /\ [](cpc \in {"fill", "fin"} => (timer_start # None <=> base < next_seq_num))
    /\ [][(/\ cpc = "fill"
           /\ base = next_seq_num
           /\ next_seq_num' > next_seq_num)
          => timer_start' = <<0>>]_vars
    /\ [][(cpc = "poll" /\ base' > base)
          => timer_start' = (IF base' < next_seq_num THEN <<0>> ELSE None)]_vars

C20_Witness ==
    /\ cpc = "fill"
    /\ timer_start = None
    /\ base = next_seq_num
    /\ base >= 1
    /\ file_cursor < Len(file_data)
    /\ ~timeout_occurred

====
